---- MODULE Spec2Model ----
(***************************************************************************)
(* Model of the hierarchical summarization pipeline of src/summarizer.py:  *)
(* clean_text, split_sentences and SmartSummarizer (generate_summary,      *)
(* _direct_summarize, _hierarchical_summarize, _create_balanced_chunks,    *)
(* _verify_coverage, _remove_duplicates) and the module's get_summarizer.  *)
(*                                                                         *)
(* A text is a sequence of atoms.  An atom is a whitespace character, a    *)
(* sentence mark ('.', '!', '?'), the replacement character U+FFFD, or a   *)
(* run of word characters.  The string operations of the code (strip,      *)
(* rstrip, lower, the regular expressions) only look at whitespace, marks  *)
(* and letter case, so they are modelled atom by atom.  The BART tokenizer *)
(* is a library: it is modelled by a token weight per atom plus the two    *)
(* special tokens <s> and </s> it adds to every encoded text.              *)
(***************************************************************************)
EXTENDS Integers, Sequences, FiniteSets, TLC

\* ------------------------------------------------------------------ atoms

Whitespace == {" ", "TAB"}

Marks == {".", "!", "?"}

Replacement == "U+FFFD"

\* Lower-case word runs and the number of tokens each one encodes to.  In a
\* text a word run is always next to whitespace or a mark, never to a run.
WordWeight ==
    [a |-> 1, b |-> 1, s |-> 77, t |-> 107, u |-> 150, v |-> 247,
     p |-> 300, q |-> 450, r |-> 600, x |-> 950, k |-> 1021]

\* The words of five or more letters in each word run.
WordConcepts ==
    [a |-> {}, b |-> {}, s |-> {}, t |-> {"tiger"}, u |-> {"tiger", "uncle"},
     v |-> {"vivid"}, p |-> {"paper"}, q |-> {"paper", "query"},
     r |-> {"river"}, x |-> {"xenon"}, k |-> {"kayak"}]

\* str.lower() on one atom: "A" and "T" are the upper-case spellings of the
\* runs "a" and "t".
Lower(c) == IF c = "A" THEN "a" ELSE IF c = "T" THEN "t" ELSE c

\* Tokens one atom contributes to an encoded text (byte-level BPE: the space
\* before a word is part of the word's token; a mark is a token of its own).
AtomTokens(c) ==
    IF c \in Whitespace THEN 0
    ELSE IF c \in Marks \/ c = Replacement THEN 1
    ELSE WordWeight[Lower(c)]

RECURSIVE SumTokens(_)
SumTokens(s) ==
    IF s = <<>> THEN 0 ELSE AtomTokens(Head(s)) + SumTokens(Tail(s))

\* self.tokenizer(text, truncation=False)['input_ids'].shape[1]
Tokenize(s) == 2 + SumTokens(s)

\* ------------------------------------------------------ string operations

RECURSIVE LStrip(_)
LStrip(s) ==
    IF s # <<>> /\ Head(s) \in Whitespace THEN LStrip(Tail(s)) ELSE s

RECURSIVE RStripSet(_, _)
RStripSet(s, cs) ==
    IF s # <<>> /\ s[Len(s)] \in cs
    THEN RStripSet(SubSeq(s, 1, Len(s) - 1), cs)
    ELSE s

\* str.strip()
Strip(s) == RStripSet(LStrip(s), Whitespace)

\* str.lower()
LowerStr(s) == [i \in DOMAIN s |-> Lower(s[i])]

\* " ".join(parts)
RECURSIVE Join(_)
Join(parts) ==
    IF parts = <<>> THEN <<>>
    ELSE IF Len(parts) = 1 THEN parts[1]
    ELSE parts[1] \o <<" ">> \o Join(Tail(parts))

RECURSIVE DropLeading(_, _)
DropLeading(s, cs) ==
    IF s # <<>> /\ Head(s) \in cs THEN DropLeading(Tail(s), cs) ELSE s

\* re.sub(r'<cs>+', by, s): every maximal run of atoms of cs becomes one `by`
RECURSIVE CollapseRuns(_, _, _)
CollapseRuns(s, cs, by) ==
    IF s = <<>> THEN <<>>
    ELSE IF Head(s) \in cs
         THEN <<by>> \o CollapseRuns(DropLeading(s, cs), cs, by)
         ELSE <<Head(s)>> \o CollapseRuns(Tail(s), cs, by)

\* text.replace(U+FFFD, "")
RemoveReplacement(s) == SelectSeq(s, LAMBDA c : c # Replacement)

\* clean_text: the encode/decode round trip keeps every atom of a str built
\* from these atoms; then the replacement character is removed, runs of
\* periods and runs of whitespace collapse, and the result is stripped.
clean_text(s) ==
    Strip(CollapseRuns(CollapseRuns(RemoveReplacement(s), {"."}, "."),
                       Whitespace, " "))

\* re.split(r'(?<=[.!?])\s+', text): the pieces between the whitespace runs
\* that directly follow a sentence mark.  cur is the piece being read.
RECURSIVE SplitAfterMarks(_, _)
SplitAfterMarks(s, cur) ==
    IF s = <<>> THEN <<cur>>
    ELSE IF Head(s) \in Whitespace /\ cur # <<>> /\ cur[Len(cur)] \in Marks
         THEN <<cur>> \o SplitAfterMarks(DropLeading(s, Whitespace), <<>>)
         ELSE SplitAfterMarks(Tail(s), Append(cur, Head(s)))

\* [s.strip() for s in sentences if s.strip()]
StripNonEmpty(parts) ==
    LET stripped == [i \in DOMAIN parts |-> Strip(parts[i])]
    IN  SelectSeq(stripped, LAMBDA p : p # <<>>)

split_sentences(s) == StripNonEmpty(SplitAfterMarks(s, <<>>))

\* --------------------------------------------------- _remove_duplicates

\* normalized = sent.strip().rstrip(".!?").lower()
Normalized(sent) == LowerStr(RStripSet(Strip(sent), Marks))

\* The loop body without the test for an empty key.
DedupStepKeepsEmpty(st, sent) ==
    IF Normalized(sent) \notin st.seen
    THEN [seen |-> st.seen \cup {Normalized(sent)},
          unique |-> Append(st.unique, sent)]
    ELSE st

\* The loop body appending the key instead of the sentence.
DedupStepAppendsKey(st, sent) ==
    IF Normalized(sent) # <<>> /\ Normalized(sent) \notin st.seen
    THEN [seen |-> st.seen \cup {Normalized(sent)},
          unique |-> Append(st.unique, Normalized(sent))]
    ELSE st

\* One iteration of the loop of _remove_duplicates on the loop state
\* st = [seen, unique].
DedupStep(st, sent) ==
    IF Normalized(sent) # <<>> /\ Normalized(sent) \notin st.seen
    THEN [seen |-> st.seen \cup {Normalized(sent)},
          unique |-> Append(st.unique, sent)]
    ELSE st

DedupStart == [seen |-> {}, unique |-> <<>>]

RECURSIVE DedupFrom(_, _)
DedupFrom(st, sents) ==
    IF sents = <<>> THEN st
    ELSE DedupFrom(DedupStep(st, Head(sents)), Tail(sents))

\* _remove_duplicates(sentences)
RemoveDuplicates(sents) == DedupFrom(DedupStart, sents).unique

\* ----------------------------------------------- _create_balanced_chunks

chunk_limit == 900

\* sent_token_count of one sentence
SentTokens(sent) == Tokenize(sent)

\* The second break computed as 2 * (total // 3).
BreakPointsTwiceThird(total) == {total \div 3, 2 * (total \div 3)}

\* break_points = {total // 3, 2 * total // 3}
BreakPoints(total) == {total \div 3, (2 * total) \div 3}

\* The forced break leaving the running total as it was.
ForcedBreakKeepsTotal(st, idx, total) ==
    IF idx \in BreakPoints(total) /\ st.current_chunk # <<>>
    THEN [chunks |-> Append(st.chunks, st.current_chunk),
          current_chunk |-> <<>>,
          current_tokens |-> st.current_tokens]
    ELSE st

\* "Force chunk break at major sections": the first if of the loop body, on
\* the loop state st = [chunks, current_chunk, current_tokens].
ForcedBreak(st, idx, total) ==
    IF idx \in BreakPoints(total) /\ st.current_chunk # <<>>
    THEN [chunks |-> Append(st.chunks, st.current_chunk),
          current_chunk |-> <<>>,
          current_tokens |-> 0]
    ELSE st

\* The token test starting the new chunk empty, without the sentence.
TokenLimitDropsSentence(st, sent) ==
    IF st.current_tokens + SentTokens(sent) > chunk_limit
       /\ st.current_chunk # <<>>
    THEN [chunks |-> Append(st.chunks, st.current_chunk),
          current_chunk |-> <<>>,
          current_tokens |-> 0]
    ELSE [chunks |-> st.chunks,
          current_chunk |-> Append(st.current_chunk, sent),
          current_tokens |-> st.current_tokens + SentTokens(sent)]

\* The token test on the running total alone, before the sentence is added.
TokenLimitBeforeAdding(st, sent) ==
    IF st.current_tokens > chunk_limit /\ st.current_chunk # <<>>
    THEN [chunks |-> Append(st.chunks, st.current_chunk),
          current_chunk |-> <<sent>>,
          current_tokens |-> SentTokens(sent)]
    ELSE [chunks |-> st.chunks,
          current_chunk |-> Append(st.current_chunk, sent),
          current_tokens |-> st.current_tokens + SentTokens(sent)]

\* "Check token limit": the second if of the loop body.
TokenLimit(st, sent) ==
    IF st.current_tokens + SentTokens(sent) > chunk_limit
       /\ st.current_chunk # <<>>
    THEN [chunks |-> Append(st.chunks, st.current_chunk),
          current_chunk |-> <<sent>>,
          current_tokens |-> SentTokens(sent)]
    ELSE [chunks |-> st.chunks,
          current_chunk |-> Append(st.current_chunk, sent),
          current_tokens |-> st.current_tokens + SentTokens(sent)]

\* One iteration of the walk, for the sentence at (0-based) index idx.
ChunkStep(st, idx, sent, total) == TokenLimit(ForcedBreak(st, idx, total), sent)

\* After the walk: "if current_chunk: chunks.append(current_chunk)".
ChunkClose(st) ==
    IF st.current_chunk # <<>> THEN Append(st.chunks, st.current_chunk)
    ELSE st.chunks

ChunkStart == [chunks |-> <<>>, current_chunk |-> <<>>, current_tokens |-> 0]

RECURSIVE ChunkFrom(_, _, _)
ChunkFrom(st, idx, sents) ==
    IF idx = Len(sents) THEN st
    ELSE ChunkFrom(ChunkStep(st, idx, sents[idx + 1], Len(sents)), idx + 1, sents)

\* _create_balanced_chunks(sentences)
CreateBalancedChunks(sents) == ChunkClose(ChunkFrom(ChunkStart, 0, sents))

\* ------------------------------------------------------ _verify_coverage

IsWord(c) == c \notin Whitespace /\ c \notin Marks /\ c # Replacement

\* set(re.findall(r'\b[a-z]{5,}\b', text.lower()))
Concepts(s) ==
    UNION {WordConcepts[Lower(s[i])] : i \in {j \in DOMAIN s : IsWord(s[j])}}

\* The percentage taken over the summary's concepts instead of the original's.
VerifyCoverageOverSummary(original, final) ==
    LET original_concepts == Concepts(Join(original))
        summary_concepts == Concepts(final)
    IN  IF original_concepts = {} THEN [num |-> 100, den |-> 1]
        ELSE [num |-> 100 * Cardinality(original_concepts \cap summary_concepts),
              den |-> Cardinality(summary_concepts)]

\* _verify_coverage: the percentage as the fraction num / den.
VerifyCoverage(original, final) ==
    LET original_concepts == Concepts(Join(original))
        summary_concepts == Concepts(final)
    IN  IF original_concepts = {} THEN [num |-> 100, den |-> 1]
        ELSE [num |-> 100 * Cardinality(original_concepts \cap summary_concepts),
              den |-> Cardinality(original_concepts)]

\* ------------------------------------------------------- generate_summary

max_input_tokens == 1024

Levels == {"abstract", "summary", "article", "other"}

\* "Word limits based on level"
TargetWords(lv) ==
    IF lv = "abstract" THEN 60
    ELSE IF lv = "article" THEN 250
    ELSE 130

\* The path test with >= in place of >.
TooLongAtLimit(n) == n >= max_input_tokens

\* if num_tokens > self.max_input_tokens: the multi-stage path
TooLong(n) == n > max_input_tokens

\* The per-chunk budget without its floor of 80 words.
WordsPerChunkNoFloor(tw) == (tw * 7) \div 10

\* words_per_chunk = max(80, int(target_words * 0.7))
WordsPerChunk(tw) ==
    IF (tw * 7) \div 10 > 80 THEN (tw * 7) \div 10 ELSE 80

\* The call _direct_summarize makes to model.generate: the input text, which
\* the tokenizer truncates to 1024 tokens, and the length window
\* min_tokens = int(target_words * 0.9 * 1.3), max_tokens = int(target_words * 1.3 * 1.5).
ModelCall(stage, input, tw) ==
    [stage |-> stage,
     input |-> input,
     target_words |-> tw,
     min_length |-> (tw * 117) \div 100,
     max_length |-> (tw * 195) \div 100,
     truncated |-> Tokenize(input) > 1024]

\* Texts the model can return.
SummaryPool ==
    {<<"s", ".">>, <<"t", "!">>, <<"u", ".">>, <<"v", ".">>, <<"p", ".">>,
     <<"q", ".">>}

\* The decoded outputs of model.generate for a call: min_length and
\* max_length bound the length of what is generated.
Generated(call) ==
    {o \in SummaryPool :
        call.min_length <= Tokenize(o) /\ Tokenize(o) <= call.max_length}

\* combined_text = " ".join(chunk_summaries)
CombinedText(summaries) == Join(summaries)

\* The failed call swallowed and made again.
OnModelErrorRetry(at) == at

\* model.generate raising inside _direct_summarize: no caller up to
\* generate_summary has a try block, so the exception leaves generate_summary.
OnModelError(at) == "raised"

\* ------------------------------------------------------------------ state

VARIABLES
    text,                \* generate_summary: the text argument
    level,               \* generate_summary: the level argument
    pc,                  \* where the call under way stands
    outcome,             \* "running", "returned" or "raised"
    summary,             \* the value generate_summary returned
    original_sentences,  \* split_sentences(clean_text(text)); _remove_duplicates' argument
    seen,                \* _remove_duplicates: seen
    unique,              \* _remove_duplicates: unique; then unique_sentences
    di,                  \* _remove_duplicates: sentences read so far
    first_unique,        \* the result of the first of two _remove_duplicates runs
    target_words,
    num_tokens,
    idx,                 \* _create_balanced_chunks: the walk's index
    chunks,
    current_chunk,
    current_tokens,
    chunk_summaries,
    calls,               \* the calls made to model.generate, in order
    coverage,
    _summarizer,         \* the module's global: 0 is None, else an instance
    tpc,                 \* each request thread's position in generate_summary
    built,               \* the instance a thread constructed and has not stored yet
    used,                \* the instance get_summarizer() returned to a thread
    loads,               \* how many times SmartSummarizer() was constructed
    served               \* the instances requests have run generate_summary on

vars ==
    <<text, level, pc, outcome, summary, original_sentences, seen, unique, di,
      first_unique, target_words, num_tokens, idx, chunks, current_chunk,
      current_tokens, chunk_summaries, calls, coverage, _summarizer, tpc,
      built, used, loads, served>>

singletonVars == <<_summarizer, tpc, built, used, loads, served>>

dedupVars == <<seen, unique, di>>
walkVars == <<idx, chunks, current_chunk, current_tokens>>

\* ----------------------------------------------------------------- bounds

MaxThreads == 2

\* The threads of the web server, each serving one request at a time.
Threads == 1 .. MaxThreads

\* The module as imported and no request under way: _summarizer = None.
NoRequests ==
    /\ _summarizer = 0
    /\ tpc = [th \in Threads |-> "idle"]
    /\ built = [th \in Threads |-> 0]
    /\ used = [th \in Threads |-> 0]
    /\ loads = 0
    /\ served = {}

MaxFrags == 3

MaxSents == 5

RECURSIVE SeqsUpTo(_, _)
SeqsUpTo(S, n) ==
    IF n = 0 THEN {<<>>}
    ELSE LET shorter == SeqsUpTo(S, n - 1)
         IN  shorter \cup {Append(q, e) : q \in shorter, e \in S}

RECURSIVE Concat(_)
Concat(parts) ==
    IF parts = <<>> THEN <<>> ELSE Head(parts) \o Concat(Tail(parts))

\* The pieces input texts are made of.
Fragments ==
    {<<"a", ".", " ">>,
     <<"A", "U+FFFD", "!", " ">>,
     <<"a", " ", ".", " ">>,
     <<".", " ">>,
     <<" ">>,
     <<"q", ".", "TAB", " ">>,
     <<"r", ".", ".", " ">>,
     <<"x", "?", " ">>,
     <<"k", " ">>}

Texts == {Concat(fs) : fs \in SeqsUpTo(Fragments, MaxFrags)}

\* The sentences handed to _create_balanced_chunks.
SentencePool ==
    {<<"a", ".">>, <<"p", ".">>, <<"q", ".">>, <<"r", ".">>, <<"x", "?">>}

\* ------------------------------------------------------- generate_summary

\* summary before generate_summary has returned anything.
Unset == <<"unset">>

Init ==
    /\ NoRequests
    /\ text \in Texts
    /\ level \in Levels
    /\ pc = "start"
    /\ outcome = "running"
    /\ summary = Unset
    /\ original_sentences = <<>>
    /\ seen = {}
    /\ unique = <<>>
    /\ di = 0
    /\ first_unique = <<>>
    /\ target_words = 0
    /\ num_tokens = 0
    /\ idx = 0
    /\ chunks = <<>>
    /\ current_chunk = <<>>
    /\ current_tokens = 0
    /\ chunk_summaries = <<>>
    /\ calls = <<>>
    /\ coverage = [num |-> 0, den |-> 1]

\* generate_summary up to its first model call: clean, split, the empty
\* test, deduplication, the target, the token count and the choice of path
\* (with _hierarchical_summarize's chunking).
Start ==
    /\ pc = "start"
    /\ original_sentences' = split_sentences(clean_text(text))
    /\ IF original_sentences' = <<>>
       THEN /\ summary' = <<>>
            /\ outcome' = "returned"
            /\ pc' = "done"
            /\ UNCHANGED <<dedupVars, target_words, num_tokens, walkVars>>
       ELSE LET dd == DedupFrom(DedupStart, original_sentences')
                n == Tokenize(Join(dd.unique))
                walk == ChunkFrom(ChunkStart, 0, dd.unique)
            IN  /\ seen' = dd.seen
                /\ unique' = dd.unique
                /\ di' = Len(original_sentences')
                /\ target_words' = TargetWords(level)
                /\ num_tokens' = n
                /\ IF TooLong(n)
                   THEN /\ idx' = Len(dd.unique)
                        /\ chunks' = ChunkClose(walk)
                        /\ current_chunk' = walk.current_chunk
                        /\ current_tokens' = walk.current_tokens
                        /\ pc' = IF chunks' = <<>> THEN "stage3" ELSE "stage1"
                   ELSE /\ pc' = "direct"
                        /\ UNCHANGED walkVars
                /\ UNCHANGED <<summary, outcome>>
    /\ UNCHANGED <<singletonVars, text, level, first_unique, chunk_summaries, calls, coverage>>

\* The single-pass path: summary = self._direct_summarize(full_text, target_words)
DirectCall ==
    /\ pc = "direct"
    /\ LET call == ModelCall("direct", Join(unique), target_words)
       IN  \E out \in Generated(call) :
              /\ calls' = Append(calls, [call |-> call, ok |-> TRUE, output |-> out])
              /\ summary' = out
    /\ outcome' = "returned"
    /\ pc' = "done"
    /\ UNCHANGED <<singletonVars, text, level, original_sentences, dedupVars, first_unique,
                   target_words, num_tokens, walkVars, chunk_summaries, coverage>>

\* Stage 1: one iteration of "for i, chunk in enumerate(chunks)".
Stage1Call ==
    /\ pc = "stage1"
    /\ LET i == Len(chunk_summaries) + 1
           call == ModelCall("stage1", Join(chunks[i]), WordsPerChunk(target_words))
       IN  /\ \E out \in Generated(call) :
                 /\ calls' = Append(calls, [call |-> call, ok |-> TRUE, output |-> out])
                 /\ chunk_summaries' = Append(chunk_summaries, out)
           /\ pc' = IF i = Len(chunks) THEN "stage3" ELSE "stage1"
    /\ UNCHANGED <<singletonVars, text, level, outcome, summary, original_sentences, dedupVars,
                   first_unique, target_words, num_tokens, walkVars, coverage>>

\* Stages 2 and 3, the coverage report and the return.
Stage3Call ==
    /\ pc = "stage3"
    /\ LET call == ModelCall("stage3", CombinedText(chunk_summaries), target_words)
       IN  \E out \in Generated(call) :
              /\ calls' = Append(calls, [call |-> call, ok |-> TRUE, output |-> out])
              /\ coverage' = VerifyCoverage(unique, out)
              /\ summary' = out
    /\ outcome' = "returned"
    /\ pc' = "done"
    /\ UNCHANGED <<singletonVars, text, level, original_sentences, dedupVars, first_unique,
                   target_words, num_tokens, walkVars, chunk_summaries>>

\* The call that is due raises (out of memory, backend fault).
CallDue ==
    CASE pc = "direct" -> ModelCall("direct", Join(unique), target_words)
      [] pc = "stage1" ->
            ModelCall("stage1", Join(chunks[Len(chunk_summaries) + 1]),
                      WordsPerChunk(target_words))
      [] pc = "stage3" ->
            ModelCall("stage3", CombinedText(chunk_summaries), target_words)

CallFails ==
    /\ pc \in {"direct", "stage1", "stage3"}
    /\ calls' = Append(calls, [call |-> CallDue, ok |-> FALSE, output |-> <<>>])
    /\ pc' = OnModelError(pc)
    /\ outcome' = IF pc' = "raised" THEN "raised" ELSE outcome
    /\ UNCHANGED <<singletonVars, text, level, summary, original_sentences, dedupVars,
                   first_unique, target_words, num_tokens, walkVars,
                   chunk_summaries, coverage>>

Next == Start \/ DirectCall \/ Stage1Call \/ Stage3Call \/ CallFails

Spec == Init /\ [][Next]_vars

\* --------------------------------------- _remove_duplicates, step by step

\* The sentence lists generate_summary hands to _remove_duplicates.
InitDedup ==
    /\ NoRequests
    /\ original_sentences \in {split_sentences(clean_text(tx)) : tx \in Texts}
    /\ pc = "dedup1"
    /\ seen = DedupStart.seen
    /\ unique = DedupStart.unique
    /\ di = 0
    /\ first_unique = <<>>
    /\ text = <<>>
    /\ level = "summary"
    /\ outcome = "running"
    /\ summary = Unset
    /\ target_words = 0
    /\ num_tokens = 0
    /\ idx = 0
    /\ chunks = <<>>
    /\ current_chunk = <<>>
    /\ current_tokens = 0
    /\ chunk_summaries = <<>>
    /\ calls = <<>>
    /\ coverage = [num |-> 0, den |-> 1]

notDedup ==
    <<singletonVars, text, level, outcome, summary, target_words, num_tokens, walkVars,
      chunk_summaries, calls, coverage>>

\* "for sent in sentences": one iteration.
DedupLoop ==
    /\ pc \in {"dedup1", "dedup2"}
    /\ di < Len(original_sentences)
    /\ LET st == DedupStep([seen |-> seen, unique |-> unique],
                           original_sentences[di + 1])
       IN  /\ seen' = st.seen
           /\ unique' = st.unique
    /\ di' = di + 1
    /\ UNCHANGED <<pc, original_sentences, first_unique, notDedup>>

\* "return unique"
DedupReturn ==
    /\ pc \in {"dedup1", "dedup2"}
    /\ di = Len(original_sentences)
    /\ pc' = IF pc = "dedup1" THEN "deduped1" ELSE "deduped2"
    /\ UNCHANGED <<original_sentences, dedupVars, first_unique, notDedup>>

\* _remove_duplicates called again, on what it returned.
DedupAgain ==
    /\ pc = "deduped1"
    /\ first_unique' = unique
    /\ original_sentences' = unique
    /\ seen' = DedupStart.seen
    /\ unique' = DedupStart.unique
    /\ di' = 0
    /\ pc' = "dedup2"
    /\ UNCHANGED notDedup

NextDedup == DedupLoop \/ DedupReturn \/ DedupAgain

SpecDedup == InitDedup /\ [][NextDedup]_vars

\* ---------------------------------- _create_balanced_chunks, step by step

InitChunk ==
    /\ NoRequests
    /\ unique \in SeqsUpTo(SentencePool, MaxSents)
    /\ pc = "walk"
    /\ idx = 0
    /\ chunks = ChunkStart.chunks
    /\ current_chunk = ChunkStart.current_chunk
    /\ current_tokens = ChunkStart.current_tokens
    /\ original_sentences = unique
    /\ seen = {}
    /\ di = 0
    /\ first_unique = <<>>
    /\ text = <<>>
    /\ level = "summary"
    /\ outcome = "running"
    /\ summary = Unset
    /\ target_words = 0
    /\ num_tokens = 0
    /\ chunk_summaries = <<>>
    /\ calls = <<>>
    /\ coverage = [num |-> 0, den |-> 1]

notWalk ==
    <<singletonVars, text, level, outcome, summary, original_sentences, dedupVars,
      first_unique, target_words, num_tokens, chunk_summaries, calls, coverage>>

\* "for idx, sent in enumerate(sentences)": one iteration.
ChunkWalk ==
    /\ pc = "walk"
    /\ idx < Len(unique)
    /\ LET st == ChunkStep([chunks |-> chunks, current_chunk |-> current_chunk,
                            current_tokens |-> current_tokens],
                           idx, unique[idx + 1], Len(unique))
       IN  /\ chunks' = st.chunks
           /\ current_chunk' = st.current_chunk
           /\ current_tokens' = st.current_tokens
    /\ idx' = idx + 1
    /\ UNCHANGED <<pc, notWalk>>

\* The end of the walk and "return chunks".
ChunkReturn ==
    /\ pc = "walk"
    /\ idx = Len(unique)
    /\ chunks' = ChunkClose([chunks |-> chunks, current_chunk |-> current_chunk,
                             current_tokens |-> current_tokens])
    /\ pc' = "chunked"
    /\ UNCHANGED <<idx, current_chunk, current_tokens, notWalk>>

NextChunk == ChunkWalk \/ ChunkReturn

SpecChunk == InitChunk /\ [][NextChunk]_vars

\* ======================================================== chunk builder

RECURSIVE ChunkTokens(_)
ChunkTokens(chunk) ==
    IF chunk = <<>> THEN 0 ELSE SentTokens(Head(chunk)) + ChunkTokens(Tail(chunk))

\* The (0-based) input index of the first sentence of chunk number c.
RECURSIVE FirstIndex(_, _)
FirstIndex(cs, c) == IF c = 1 THEN 0 ELSE FirstIndex(cs, c - 1) + Len(cs[c - 1])

\* C1: the chunks returned are non-empty and their in-order concatenation is
\* the input sequence (nothing lost, duplicated, reordered or split); no
\* sentences give no chunks.  During the walk the closed chunks followed by
\* the open one are the sentences read so far.
ChunksPartitionInput ==
    /\ pc = "walk" =>
          /\ Concat(chunks) \o current_chunk = SubSeq(unique, 1, idx)
          /\ \A c \in DOMAIN chunks : chunks[c] # <<>>
    /\ pc = "chunked" =>
          /\ Concat(chunks) = unique
          /\ \A c \in DOMAIN chunks : chunks[c] # <<>>
          /\ unique = <<>> => chunks = <<>>

ChunksPartitionInputWitness ==
    /\ pc = "chunked"
    /\ Len(unique) = 5
    /\ Len(chunks) = 4
    /\ \E c \in DOMAIN chunks : Len(chunks[c]) = 2
    /\ \E c \in DOMAIN chunks : ChunkTokens(chunks[c]) > chunk_limit

\* C2: a chunk's per-sentence token counts sum to at most 900, unless the
\* chunk is one sentence that alone counts more than 900; a chunk over the
\* ceiling holds one sentence only.
ChunkWithinCeiling(chunk) ==
    \/ ChunkTokens(chunk) <= 900
    \/ Len(chunk) = 1 /\ SentTokens(chunk[1]) > 900

ChunksWithinCeiling ==
    /\ \A c \in DOMAIN chunks : ChunkWithinCeiling(chunks[c])
    /\ ChunkWithinCeiling(current_chunk)
    /\ current_tokens = ChunkTokens(current_chunk)

\* A token-limit break inside a third, an oversized sentence alone, and a
\* chunk of two sentences under the ceiling.
ChunksWithinCeilingWitness ==
    /\ pc = "chunked"
    /\ \E c \in DOMAIN chunks :
          Len(chunks[c]) = 1 /\ ChunkTokens(chunks[c]) > 900
    /\ \E c \in DOMAIN chunks :
          Len(chunks[c]) = 2 /\ ChunkTokens(chunks[c]) > 700
    /\ \E c \in 1 .. Len(chunks) - 1 :
          /\ FirstIndex(chunks, c + 1) \notin
                {Len(unique) \div 3, (2 * Len(unique)) \div 3}
          /\ ChunkTokens(chunks[c]) <= 900

\* C3: with n sentences, the sentences at indices floor(n/3) and
\* floor(2n/3) each start a chunk, whatever the token counts; no chunk holds
\* sentences from both sides of such an index.
ForcedBreaksStartChunks ==
    pc = "chunked" /\ unique # <<>> =>
        LET n == Len(unique)
            starts == {FirstIndex(chunks, c) : c \in DOMAIN chunks}
        IN  /\ Concat(chunks) = unique
            /\ n \div 3 \in starts
            /\ (2 * n) \div 3 \in starts

\* Five sentences under the ceiling together, broken before indices 1 and 3.
ForcedBreaksStartChunksWitness ==
    /\ pc = "chunked"
    /\ Len(unique) = 5
    /\ ChunkTokens(unique) <= 900
    /\ Len(chunks) = 3
    /\ FirstIndex(chunks, 2) = 1
    /\ FirstIndex(chunks, 3) = 3

\* ========================================================= orchestrator

\* The target word count of each level.
LevelWords == [abstract |-> 60, summary |-> 130, article |-> 250]

\* The Stage-1 word budget of each level.
LevelChunkWords == [abstract |-> 80, summary |-> 91, article |-> 175]

NamedLevels == {"abstract", "summary", "article"}

\* C4: once the path is chosen it is the single pass exactly when the joined
\* deduplicated text counts at most 1024 tokens, whatever the level: then
\* the model is called once, with the level's word count, and what it
\* gives is returned; above 1024 tokens the calls are those of the
\* multi-stage path.
PathByTokenCount ==
    /\ pc \notin {"start", "done"} \/ calls # <<>> =>
          num_tokens = Tokenize(Join(unique))
    /\ pc = "direct" => num_tokens <= 1024 /\ calls = <<>>
    /\ pc \in {"stage1", "stage3"} => num_tokens > 1024
    /\ calls # <<>> =>
          IF num_tokens <= 1024
          THEN /\ Len(calls) = 1
               /\ calls[1].call.stage = "direct"
               /\ calls[1].call.input = Join(unique)
               /\ level \in NamedLevels =>
                     calls[1].call.target_words = LevelWords[level]
               /\ outcome = "returned" => summary = calls[1].output
          ELSE calls[1].call.stage = "stage1"

\* A text of exactly 1024 tokens, summarized in one call.
PathByTokenCountWitness ==
    /\ outcome = "returned"
    /\ num_tokens = 1024
    /\ Len(calls) = 1
    /\ summary = calls[1].output
    /\ level = "abstract"

\* C5: on the multi-stage path call number i, up to the number of chunks, is
\* the Stage-1 call on chunk i with the level's per-chunk budget; the one
\* call after them is the Stage-3 call on the chunk summaries joined in
\* chunk order, with the level's word count, and its output is what is
\* returned: k chunks make k + 1 calls.
MultiStageTrace ==
    num_tokens > 1024 =>
        /\ Len(calls) <= Len(chunks) + 1
        /\ \A i \in DOMAIN calls :
              IF i <= Len(chunks)
              THEN /\ calls[i].call.stage = "stage1"
                   /\ calls[i].call.input = Join(chunks[i])
                   /\ level \in NamedLevels =>
                         calls[i].call.target_words = LevelChunkWords[level]
              ELSE /\ calls[i].call.stage = "stage3"
                   /\ calls[i].call.input =
                         Join([j \in 1 .. Len(chunks) |-> calls[j].output])
                   /\ level \in NamedLevels =>
                         calls[i].call.target_words = LevelWords[level]
        /\ outcome = "returned" =>
              /\ Len(calls) = Len(chunks) + 1
              /\ summary = calls[Len(calls)].output

\* Three chunks, whose summaries differ, and the fourth call's output returned.
MultiStageTraceWitness ==
    /\ outcome = "returned"
    /\ Len(chunks) = 3
    /\ Len(calls) = 4
    /\ calls[1].output # calls[2].output
    /\ summary = calls[4].output
    /\ coverage.num > 0

\* C6: when no sentence is left after normalization and deduplication,
\* generate_summary makes no model call and returns the empty string.
NoSentencesNoCalls ==
    RemoveDuplicates(split_sentences(clean_text(text))) = <<>> =>
        /\ calls = <<>>
        /\ outcome # "raised"
        /\ outcome = "returned" => summary = <<>>

\* C7: a failed model call is the last call made, generate_summary ends
\* with the failure and no summary is returned.
FailureEndsRequest ==
    /\ \A i \in DOMAIN calls :
          ~calls[i].ok =>
              /\ i = Len(calls)
              /\ outcome = "raised"
              /\ summary = Unset
    /\ outcome = "raised" =>
          /\ calls # <<>>
          /\ ~calls[Len(calls)].ok
          /\ ~ENABLED Next

\* The second Stage-1 call fails after the first one succeeded.
FailureEndsRequestWitness ==
    /\ outcome = "raised"
    /\ Len(calls) = 2
    /\ calls[1].ok
    /\ calls[2].call.stage = "stage1"
    /\ Len(chunks) = 3

\* ========================================================= deduplicator

\* The key of section 4.2: lower case, trailing '.', '!', '?' stripped, then
\* outer whitespace trimmed.
SectionKey(sent) == Strip(RStripSet(LowerStr(sent), Marks))

\* C8: no two sentences returned by _remove_duplicates have the same
\* section-4.2 key.
NoTwoWithSameSectionKey ==
    pc \in {"deduped1", "deduped2"} =>
        \A i, j \in DOMAIN unique :
            i < j => SectionKey(unique[i]) # SectionKey(unique[j])

\* The input positions _remove_duplicates is to keep: the key is not empty
\* and no earlier sentence has it.
FirstOfItsKey(sents, i) ==
    /\ Normalized(sents[i]) # <<>>
    /\ \A j \in 1 .. i - 1 : Normalized(sents[j]) # Normalized(sents[i])

RECURSIVE Pick(_, _, _)
Pick(sents, keep, i) ==
    IF i > Len(sents) THEN <<>>
    ELSE (IF i \in keep THEN <<sents[i]>> ELSE <<>>) \o Pick(sents, keep, i + 1)

\* C9: what _remove_duplicates returns is its input, in input order and
\* unmodified, restricted to the sentences whose key (as the function
\* computes it) is non-empty and occurs at no earlier position.
KeepsFirstOccurrences ==
    pc \in {"deduped1", "deduped2"} =>
        unique = Pick(original_sentences,
                      {i \in DOMAIN original_sentences :
                          FirstOfItsKey(original_sentences, i)},
                      1)

\* Three sentences of which a later duplicate and an empty key are dropped.
KeepsFirstOccurrencesWitness ==
    /\ pc = "deduped1"
    /\ Len(original_sentences) = 3
    /\ Len(unique) = 1
    /\ \E i \in DOMAIN original_sentences :
          Normalized(original_sentences[i]) = <<>>
    /\ \E i \in DOMAIN original_sentences :
          /\ original_sentences[i] # unique[1]
          /\ Normalized(original_sentences[i]) = Normalized(unique[1])

\* C10: _remove_duplicates applied to its own result returns that result.
DedupIdempotent ==
    pc = "deduped2" => unique = first_unique

\* The second run over a first result that kept sentences with different
\* keys, one of them with whitespace before its mark.
DedupIdempotentWitness ==
    /\ pc = "deduped2"
    /\ Len(first_unique) = 3
    /\ original_sentences = first_unique
    /\ \E i \in DOMAIN first_unique :
          Normalized(first_unique[i]) # SectionKey(first_unique[i])

\* ------------------------------------------- _verify_coverage, applied

MaxCovSents == 2

\* Sentences with no concept, with one, with two, with shared ones, and one
\* spelled in upper case.
CoveragePool ==
    {<<"a", ".">>, <<"b", ".">>, <<"p", ".">>, <<"q", ".">>, <<"r", ".">>,
     <<"T", "!">>, <<"u", ".">>, <<"v", ".">>}

InitCoverage ==
    /\ NoRequests
    /\ unique \in SeqsUpTo(CoveragePool, MaxCovSents)
    /\ summary \in {Join(ss) : ss \in SeqsUpTo(CoveragePool, 2)}
    /\ pc = "verify"
    /\ coverage = [num |-> 0, den |-> 1]
    /\ original_sentences = unique
    /\ seen = {}
    /\ di = 0
    /\ first_unique = <<>>
    /\ text = <<>>
    /\ level = "summary"
    /\ outcome = "running"
    /\ target_words = 0
    /\ num_tokens = 0
    /\ idx = 0
    /\ chunks = <<>>
    /\ current_chunk = <<>>
    /\ current_tokens = 0
    /\ chunk_summaries = <<>>
    /\ calls = <<>>

\* coverage = self._verify_coverage(sentences, final_summary)
VerifyCall ==
    /\ pc = "verify"
    /\ coverage' = VerifyCoverage(unique, summary)
    /\ pc' = "verified"
    /\ UNCHANGED <<singletonVars, text, level, outcome, summary, original_sentences, dedupVars,
                   first_unique, target_words, num_tokens, walkVars,
                   chunk_summaries, calls>>

NextCoverage == VerifyCall

SpecCoverage == InitCoverage /\ [][NextCoverage]_vars

\* ============================================================== coverage

\* The distinct concept tokens of a list of sentences, sentence by sentence.
ConceptTokens(sents) ==
    {w \in UNION {WordConcepts[r] : r \in DOMAIN WordConcepts} :
        \E i \in DOMAIN sents : \E j \in DOMAIN sents[i] :
            IsWord(sents[i][j]) /\ w \in WordConcepts[Lower(sents[i][j])]}

\* C11: the coverage score lies in [0, 100]; it is 100 when the original has
\* no concept token, and otherwise 100 times the number of distinct concept
\* tokens common to original and summary over the number of distinct
\* concept tokens of the original.
CoverageScore ==
    pc = "verified" =>
        LET oc == ConceptTokens(unique)
            sc == ConceptTokens(<<summary>>)
        IN  /\ coverage.den > 0
            /\ 0 <= coverage.num
            /\ coverage.num <= 100 * coverage.den
            /\ oc = {} => coverage.num = 100 * coverage.den
            /\ oc # {} =>
                  coverage.num * Cardinality(oc) =
                      100 * Cardinality(oc \cap sc) * coverage.den

\* Three concepts in the original, one of them in the summary in upper
\* case, beside a concept the original does not have.
CoverageScoreWitness ==
    /\ pc = "verified"
    /\ Cardinality(ConceptTokens(unique)) = 3
    /\ coverage.num = 100
    /\ coverage.den = 3
    /\ "T" \in {summary[j] : j \in DOMAIN summary}
    /\ ~(ConceptTokens(<<summary>>) \subseteq ConceptTokens(unique))

\* -------------------------------- get_summarizer under concurrent requests

pipelineVars ==
    <<text, level, pc, outcome, summary, original_sentences, dedupVars,
      first_unique, target_words, num_tokens, walkVars, chunk_summaries,
      calls, coverage>>

InitSingleton ==
    /\ NoRequests
    /\ text = <<>>
    /\ level = "summary"
    /\ pc = "start"
    /\ outcome = "running"
    /\ summary = Unset
    /\ original_sentences = <<>>
    /\ seen = {}
    /\ unique = <<>>
    /\ di = 0
    /\ first_unique = <<>>
    /\ target_words = 0
    /\ num_tokens = 0
    /\ idx = 0
    /\ chunks = <<>>
    /\ current_chunk = <<>>
    /\ current_tokens = 0
    /\ chunk_summaries = <<>>
    /\ calls = <<>>
    /\ coverage = [num |-> 0, den |-> 1]

\* A request thread enters the module-level generate_summary(text, level).
Request(th) ==
    /\ tpc[th] = "idle"
    /\ tpc' = [tpc EXCEPT ![th] = "test"]
    /\ UNCHANGED <<_summarizer, built, used, loads, served, pipelineVars>>

\* get_summarizer: "if _summarizer is None"
TestNone(th) ==
    /\ tpc[th] = "test"
    /\ tpc' = [tpc EXCEPT ![th] = IF _summarizer = 0 THEN "construct" ELSE "return"]
    /\ UNCHANGED <<_summarizer, built, used, loads, served, pipelineVars>>

\* SmartSummarizer(): __init__ loads the tokenizer and the model.
Construct(th) ==
    /\ tpc[th] = "construct"
    /\ loads' = loads + 1
    /\ built' = [built EXCEPT ![th] = loads + 1]
    /\ tpc' = [tpc EXCEPT ![th] = "store"]
    /\ UNCHANGED <<_summarizer, used, served, pipelineVars>>

\* "_summarizer = SmartSummarizer()": the store to the global.
Store(th) ==
    /\ tpc[th] = "store"
    /\ _summarizer' = built[th]
    /\ built' = [built EXCEPT ![th] = 0]
    /\ tpc' = [tpc EXCEPT ![th] = "return"]
    /\ UNCHANGED <<used, loads, served, pipelineVars>>

\* "return _summarizer": the global is read again.
ReturnGlobal(th) ==
    /\ tpc[th] = "return"
    /\ used' = [used EXCEPT ![th] = _summarizer]
    /\ tpc' = [tpc EXCEPT ![th] = "serve"]
    /\ UNCHANGED <<_summarizer, built, loads, served, pipelineVars>>

\* get_summarizer().generate_summary(text, level) runs and the request ends.
Serve(th) ==
    /\ tpc[th] = "serve"
    /\ served' = served \cup {used[th]}
    /\ used' = [used EXCEPT ![th] = 0]
    /\ tpc' = [tpc EXCEPT ![th] = "idle"]
    /\ UNCHANGED <<_summarizer, built, loads, pipelineVars>>

NextSingleton ==
    \E th \in Threads :
        \/ Request(th)
        \/ TestNone(th)
        \/ Construct(th)
        \/ Store(th)
        \/ ReturnGlobal(th)
        \/ Serve(th)

SpecSingleton == InitSingleton /\ [][NextSingleton]_vars

\* ============================================================= singleton

\* C12: over any interleaving of requests SmartSummarizer is constructed at
\* most once and every request runs on that one instance.
LoadedOnce ==
    /\ loads <= 1
    /\ Cardinality(served) <= 1
    /\ \A th \in Threads : used[th] # 0 => used[th] = 1

\* ------------------------------------------ generate_summary, long texts

MaxStageSents == 4

\* Long sentences; the last one alone counts 1025 tokens.
StagePool ==
    {<<"p", ".">>, <<"q", ".">>, <<"r", ".">>, <<"x", "?">>,
     <<"k", " ", "a", ".">>}

InitStages ==
    /\ NoRequests
    /\ text \in {Join(ss) : ss \in SeqsUpTo(StagePool, MaxStageSents)}
    /\ level \in NamedLevels
    /\ pc = "start"
    /\ outcome = "running"
    /\ summary = Unset
    /\ original_sentences = <<>>
    /\ seen = {}
    /\ unique = <<>>
    /\ di = 0
    /\ first_unique = <<>>
    /\ target_words = 0
    /\ num_tokens = 0
    /\ idx = 0
    /\ chunks = <<>>
    /\ current_chunk = <<>>
    /\ current_tokens = 0
    /\ chunk_summaries = <<>>
    /\ calls = <<>>
    /\ coverage = [num |-> 0, den |-> 1]

SpecStages == InitStages /\ [][Next]_vars

\* ======================================================== input limits

\* C13 as stated: every chunk handed to a Stage-1 call measures at most 1024
\* tokens.
Stage1InputsFit ==
    \A i \in DOMAIN calls :
        calls[i].call.stage = "stage1" => Tokenize(calls[i].call.input) <= 1024

\* C13, amended: a chunk handed to a Stage-1 call measures at most 1024
\* tokens unless it is one sentence that alone counts more than 1024
\* tokens; only such a chunk is truncated.
Stage1InputsFitUnlessOneSentence ==
    \A i \in DOMAIN calls :
        calls[i].call.stage = "stage1" =>
            /\ calls[i].call.input = Join(chunks[i])
            /\ \/ Tokenize(calls[i].call.input) <= 1024 /\ ~calls[i].call.truncated
               \/ Len(chunks[i]) = 1 /\ SentTokens(chunks[i][1]) > 1024

\* Stage-1 calls on a chunk of two sentences just under the ceiling and on
\* a chunk of one sentence of more than 1024 tokens.
Stage1InputsFitUnlessOneSentenceWitness ==
    /\ \E i \in DOMAIN calls :
          /\ calls[i].call.stage = "stage1"
          /\ Len(chunks[i]) = 2
          /\ Tokenize(calls[i].call.input) > 700
    /\ \E i \in DOMAIN calls :
          /\ calls[i].call.stage = "stage1"
          /\ calls[i].call.truncated
          /\ Len(chunks[i]) = 1

\* C14: with every Stage-1 summary within its max_length, the combined text
\* handed to the Stage-3 call measures at most 1024 tokens, so no chunk
\* summary is cut off by the truncation of the input.
Stage3InputFits ==
    \A i \in DOMAIN calls :
        /\ calls[i].call.stage = "stage1" /\ calls[i].ok =>
              Tokenize(calls[i].output) <= calls[i].call.max_length
        /\ calls[i].call.stage = "stage3" =>
              /\ Tokenize(calls[i].call.input) <= 1024
              /\ ~calls[i].call.truncated

\* ================================================== three-way algorithm

\* Section 4.4, step 2, for the sentence at index i of total: a forced
\* break closes the open chunk and starts a new one with the sentence;
\* otherwise an overflow of the ceiling does the same; otherwise the
\* sentence is appended and its count added to the running total.
ThreeWayStep(st, i, sent, total) ==
    IF i \in {total \div 3, (2 * total) \div 3} /\ st.current_chunk # <<>>
    THEN [chunks |-> Append(st.chunks, st.current_chunk),
          current_chunk |-> <<sent>>,
          current_tokens |-> SentTokens(sent)]
    ELSE IF st.current_tokens + SentTokens(sent) > 900 /\ st.current_chunk # <<>>
    THEN [chunks |-> Append(st.chunks, st.current_chunk),
          current_chunk |-> <<sent>>,
          current_tokens |-> SentTokens(sent)]
    ELSE [chunks |-> st.chunks,
          current_chunk |-> Append(st.current_chunk, sent),
          current_tokens |-> st.current_tokens + SentTokens(sent)]

\* The three-way walk over the first n sentences of sents.
RECURSIVE ThreeWayWalk(_, _)
ThreeWayWalk(sents, n) ==
    IF n = 0 THEN [chunks |-> <<>>, current_chunk |-> <<>>, current_tokens |-> 0]
    ELSE ThreeWayStep(ThreeWayWalk(sents, n - 1), n - 1, sents[n], Len(sents))

\* Section 4.4, step 3.
ThreeWayChunks(sents) ==
    LET st == ThreeWayWalk(sents, Len(sents))
    IN  IF st.current_chunk # <<>> THEN Append(st.chunks, st.current_chunk)
        ELSE st.chunks

\* C15: after every sentence the walk of _create_balanced_chunks has the
\* closed chunks, the open chunk and the running token total of the
\* three-way algorithm of section 4.4, and it returns the same chunk list.
WalkMatchesThreeWay ==
    /\ pc = "walk" =>
          [chunks |-> chunks, current_chunk |-> current_chunk,
           current_tokens |-> current_tokens] = ThreeWayWalk(unique, idx)
    /\ pc = "chunked" => chunks = ThreeWayChunks(unique)

\* Five sentences: the one at the forced-break index 1 alone exceeds the
\* ceiling, and a later chunk is closed by the ceiling inside a third.
WalkMatchesThreeWayWitness ==
    /\ pc = "chunked"
    /\ Len(unique) = 5
    /\ SentTokens(unique[2]) > 900
    /\ \E c \in 1 .. Len(chunks) - 1 :
          /\ FirstIndex(chunks, c + 1) \notin {1, 3}
          /\ ChunkTokens(chunks[c]) <= 900

====
